---- MODULE Spec2Model ----
(***************************************************************************)
(* A model of the auxiliary scripts of the ND-Pyomo-Cookbook repository:   *)
(*   tools/__main__.py, tools/generate_contents.py, tools/add_course_info  *)
(*     the notebook tooling (headers, navigation bars, README),            *)
(*   python/helper.py  the solver installation helpers,                    *)
(*   notebooks/01.04   the cross-platform imports cell,                    *)
(*   notebooks/04.02   the single machine schedulers,                      *)
(*   notebooks/04.04   the maintenance planning models,                    *)
(*   notebooks/08.01   the stock data download loop.                       *)
(*                                                                         *)
(* Text is modelled at two granularities.  File names are sequences of     *)
(* one-character strings, so that the regular expression REG, the          *)
(* ordering of names and int() act on characters.  Cell sources, navbars   *)
(* and README text are sequences of tokens; a token is a piece of literal  *)
(* text, possibly carrying a file name (a URL ending in that name).        *)
(***************************************************************************)
EXTENDS Integers, Sequences, FiniteSets, TLC

VARIABLES
    listing,    \* os.listdir(NOTEBOOK_DIR): the set of directory entries
    content,    \* entry -> cell list of the notebook file (nb.content, written back on every edit)
    notebooks,  \* nbcollection.notebooks: sequence of file names
    navbar,     \* nb.navbar per notebook (NoNavbar while None)
    readme,     \* README.md as written by write_readme (<<>> while not written)
    pc,         \* "start" | "ready" | "raised" (an exception ended the script)
    log,        \* the operations performed so far, in order
    avail,      \* helper.py: executables on the path / importable modules
    colab,      \* helper.py: "google.colab" in sys.modules
    call,       \* helper.py / imports cell: record of the last call
    sched,      \* notebooks/04.02: job table, global SCHEDULE and the running call
    plan,       \* notebooks/04.04: the maintenance planning model and its solution
    stock       \* notebooks/08.01: the running get_stock_data call

vars == <<listing, content, notebooks, navbar, readme, pc, log, avail, colab, call,
          sched, plan, stock>>

toolVars == <<listing, content, notebooks, navbar, readme, pc, log>>
envVars == <<avail, colab, call>>
nbVars == <<sched, plan, stock>>

\* ------------------------------------------------------------------ bounds

MaxCells == 2
MaxFiles == 3
MaxOps == 2
MaxInstalled == 1
MaxCalls == 2
MaxJobs == 2
MaxTime == 1
MaxOrder == 2
MaxT == 4
MaxP == 2
MaxN == 1
XLevels == 3
MaxSymbols == 2

\* ------------------------------------------------------- characters, names

\* The characters used in entry names, in ascending code point order.
Ascii == <<"\n", "-", ".", "0", "1", "2", "3", "4", "5", "6", "7", "8", "9",
           "A", "B", "C", "a", "b", "d", "e", "i", "n", "o", "p", "t", "x", "y", "~">>

Ord(c) == CHOOSE i \in 1..Len(Ascii) : Ascii[i] = c

isdigit(c) == c \in {"0", "1", "2", "3", "4", "5", "6", "7", "8", "9"}

isupper(c) == c \in {"A", "B", "C", "D", "E", "F", "G", "H", "I", "J", "K", "L", "M",
                     "N", "O", "P", "Q", "R", "S", "T", "U", "V", "W", "X", "Y", "Z"}

\* Python str comparison a < b : by code point, a proper prefix is smaller.
RECURSIVE StrLess(_, _)
StrLess(a, b) ==
    IF b = <<>> THEN FALSE
    ELSE IF a = <<>> THEN TRUE
    ELSE IF Head(a) = Head(b) THEN StrLess(Tail(a), Tail(b))
    ELSE Ord(Head(a)) < Ord(Head(b))

\* str.startswith on sequences (of characters or of tokens).
startswith(s, p) == Len(s) >= Len(p) /\ SubSeq(s, 1, Len(p)) = p

\* int() of a string of decimal digits.
RECURSIVE PyInt(_)
PyInt(s) ==
    IF s = <<>> THEN 0
    ELSE 10 * PyInt(SubSeq(s, 1, Len(s) - 1)) + (Ord(s[Len(s)]) - Ord("0"))

DigitChars == <<"0", "1", "2", "3", "4", "5", "6", "7", "8", "9">>

\* str() of a natural number: decimal digits, no leading zero.
RECURSIVE PyStr(_)
PyStr(n) ==
    IF n < 10 THEN <<DigitChars[n + 1]>>
    ELSE PyStr(n \div 10) \o <<DigitChars[(n % 10) + 1]>>

Ipynb == <<".", "i", "p", "y", "n", "b">>

\* the None that re.match returns when the pattern does not match
NoMatch == <<>>

\* REG = re.compile(r'(\d\d|[A-Z])\.(\d\d)-(.*)\.ipynb'); REG.match(s) anchors
\* at the start of s only.  The result is the groups (chapter, section, name)
\* or NoMatch.  '.' does not match a newline; '.*' is greedy.
REG_match(s) ==
    LET p == IF Len(s) >= 2 /\ isdigit(s[1]) /\ isdigit(s[2]) THEN 2
             ELSE IF Len(s) >= 1 /\ isupper(s[1]) THEN 1
             ELSE 0
        ends == {j \in (p + 5)..(Len(s) - 5) :
                    /\ SubSeq(s, j, j + 5) = Ipynb
                    /\ \A i \in (p + 5)..(j - 1) : s[i] # "\n"}
        last == CHOOSE j \in ends : \A k \in ends : k <= j
    IN  IF p = 0 \/ Len(s) < p + 4 THEN NoMatch
        ELSE IF ~(/\ s[p + 1] = "."
                  /\ isdigit(s[p + 2]) /\ isdigit(s[p + 3])
                  /\ s[p + 4] = "-") THEN NoMatch
        ELSE IF ends = {} THEN NoMatch
        ELSE <<SubSeq(s, 1, p), SubSeq(s, p + 2, p + 3), SubSeq(s, p + 5, last - 1)>>

\* ------------------------------------------------------------------ tokens

Lit(s) == [lit |-> s, file |-> <<>>]

NL == Lit("\n")

\* NBVIEWER_BASE_URL ends in '/', so os.path.join(NBVIEWER_BASE_URL, filename)
\* is the base followed by the file name.
NBVIEWER_BASE_URL == "http://nbviewer.jupyter.org/github/jckantor/ND-Pyomo-Cookbook/blob/master/notebooks/"

url(filename) == <<[lit |-> NBVIEWER_BASE_URL, file |-> filename]>>

\* COLAB_LINK.format(notebook_filename=os.path.basename(filename))
colab_link(filename) ==
    <<[lit |-> "<p><a href=\"https://colab.research.google.com/github/jckantor/ND-Pyomo-Cookbook/blob/master/notebooks/",
       file |-> filename],
      Lit("\"><img align=\"left\" src=\"https://colab.research.google.com/assets/colab-badge.svg\" alt=\"Open in Colab\" title=\"Open in Google Colaboratory\"></a>")>>

NOTEBOOK_HEADER_TAG == <<Lit("<!--NOTEBOOK_HEADER-->")>>

NOTEBOOK_HEADER_CONTENT == <<NL, Lit("*This notebook contains material from ND Pyomo Cookbook ...*"), NL>>

NOTEBOOK_HEADER == NOTEBOOK_HEADER_TAG \o NOTEBOOK_HEADER_CONTENT

COURSE_COMMENT == <<Lit("<!--COURSE_INFORMATION-->")>>

COURSE_INFO == COURSE_COMMENT \o <<NL, Lit("*This notebook contains material from ND Pyomo Cookbook ...*"), NL>>

NAVBAR_TAG == <<Lit("<!--NAVIGATION-->"), NL>>

CONTENTS == <<Lit("| [Contents](toc.ipynb) |")>>

PREV_TEMPLATE(title_, url_) == <<Lit("< [")>> \o title_ \o <<Lit("](")>> \o url_ \o <<Lit(") ")>>

NEXT_TEMPLATE(title_, url_) == <<Lit(" [")>> \o title_ \o <<Lit("](")>> \o url_ \o <<Lit(") >")>>

README_HEADER == <<NL, Lit("# ND Pyomo Cookbook"), NL, NL, Lit("This **ND Pyomo Cookbook** is a collection of notebooks ..."), NL>>

README_TOC == <<Lit("### [Table of Contents](")>> \o url(<<"t", "o", "c">> \o Ipynb) \o <<Lit("?flush=true)")>>

README_FOOTER == <<NL>>

\* ------------------------------------------------------------------- cells

new_markdown_cell(source) == [cell_type |-> "markdown", source |-> source]

new_code_cell(source) == [cell_type |-> "code", source |-> source]

\* list.insert(i, x) with a 0-based index 0 <= i <= len
insert(cells, i, x) == SubSeq(cells, 1, i) \o <<x>> \o SubSeq(cells, i + 1, Len(cells))

\* str.strip() at token granularity: blanks and newlines at either end go.
IsSpace(tok) == tok \in {Lit(" "), NL}

RECURSIVE lstrip(_)
lstrip(s) == IF s # <<>> /\ IsSpace(Head(s)) THEN lstrip(Tail(s)) ELSE s

RECURSIVE rstrip(_)
rstrip(s) == IF s # <<>> /\ IsSpace(s[Len(s)]) THEN rstrip(SubSeq(s, 1, Len(s) - 1)) ELSE s

strip(s) == rstrip(lstrip(s))

\* str.splitlines()[0] of a non-empty text: the tokens before the first newline.
RECURSIVE firstline(_)
firstline(s) == IF s = <<>> \/ Head(s) = NL THEN <<>> ELSE <<Head(s)>> \o firstline(Tail(s))

\* nb.title: [raised, some, val].  The first markdown cell whose source starts
\* with '#' gives source[1:].splitlines()[0].strip(); ''.splitlines()[0]
\* raises IndexError; no such cell gives None (some = FALSE).
RECURSIVE title(_)
title(cells) ==
    IF cells = <<>> THEN [raised |-> FALSE, some |-> FALSE, val |-> <<>>]
    ELSE IF Head(cells).cell_type = "markdown" /\ startswith(Head(cells).source, <<Lit("#")>>)
         THEN IF Tail(Head(cells).source) = <<>>
              THEN [raised |-> TRUE, some |-> FALSE, val |-> <<>>]
              ELSE [raised |-> FALSE, some |-> TRUE,
                    val |-> strip(firstline(Tail(Head(cells).source)))]
         ELSE title(Tail(cells))

\* f"{title}": str(None) is 'None'
fmt(t) == IF t.some THEN t.val ELSE <<Lit("None")>>

\* x in s for strings: s contains x as a substring
InStr(x, s) == \E i \in 1..(Len(s) - Len(x) + 1) : SubSeq(s, i, i + Len(x) - 1) = x

\* str.isdigit()
str_isdigit(s) == s # <<>> /\ \A i \in 1..Len(s) : isdigit(s[i])

\* ---------------------------------------------------------------- class nb

chapter(filename) == REG_match(filename)[1]

section(filename) == REG_match(filename)[2]

isfrontmatter(filename) == InStr(chapter(filename), <<"0", "0">>)

\* ischapter without the exclusion of the front matter prefix
ischapter_any_digits(filename) == str_isdigit(chapter(filename))

ischapter(filename) ==
    str_isdigit(chapter(filename)) /\ ~InStr(chapter(filename), <<"0", "0">>)

isappendix(filename) == ~(ischapter(filename) \/ isfrontmatter(filename))

issection(filename) == ~InStr(section(filename), <<"0", "0">>)

Chars(s) == [i \in 1..Len(s) |-> Lit(s[i])]

\* nb.numbered_title, given the formatted title
numbered_title(filename, title_) ==
    IF isfrontmatter(filename) THEN title_
    ELSE IF ischapter(filename)
    THEN IF ~issection(filename)
         THEN <<Lit("Chapter ")>> \o Chars(PyStr(PyInt(chapter(filename)))) \o <<Lit(". ")>> \o title_
         ELSE Chars(PyStr(PyInt(chapter(filename)))) \o <<Lit(".")>>
              \o Chars(PyStr(PyInt(section(filename)))) \o <<Lit(" ")>> \o title_
    ELSE IF ~issection(filename)
         THEN <<Lit("Appendix ")>> \o Chars(chapter(filename)) \o <<Lit(". ")>> \o title_
         ELSE Chars(chapter(filename)) \o <<Lit(".")>>
              \o Chars(PyStr(PyInt(section(filename)))) \o <<Lit(" ")>> \o title_

\* nb.link: f"[{self.numbered_title}]({self.url}]"
link(filename, title_) ==
    <<Lit("[")>> \o numbered_title(filename, title_) \o <<Lit("](")>> \o url(filename) \o <<Lit("]")>>

\* nb.readme
nb_readme(filename, title_) ==
    IF issection(filename) THEN <<Lit("- ")>> \o link(filename, title_)
    ELSE <<NL, Lit("### ")>> \o link(filename, title_)

\* gen_contents of tools/generate_contents.py, called as in its main part
\* with the nbviewer directory: the line yielded for nb_file, given the
\* formatted result of get_notebook_title.
gen_contents(nb_file, title_) ==
    LET chapter_ == REG_match(nb_file)[1]
        section_ == REG_match(nb_file)[2]
        heading == InStr(section_, <<"0", "0">>)
        number == Chars(PyStr(PyInt(section_)))
        close == <<Lit("](")>> \o url(nb_file) \o <<Lit(")")>>
        item(chapter_text) ==
            <<Lit("- [")>> \o chapter_text \o <<Lit(".")>> \o number \o <<Lit(" ")>>
            \o title_ \o close
    IN  IF str_isdigit(chapter_)
        THEN IF PyInt(chapter_) = 0
             THEN (IF heading THEN <<NL, Lit("### [")>> ELSE <<Lit("- [")>>)
                  \o title_ \o close
             ELSE IF heading
                  THEN <<NL, Lit("### [Chapter ")>> \o Chars(PyStr(PyInt(chapter_)))
                       \o <<Lit(". ")>> \o title_ \o close
                  ELSE item(Chars(PyStr(PyInt(chapter_))))
        ELSE IF heading
             THEN <<NL, Lit("### [Appendix ")>> \o Chars(chapter_)
                  \o <<Lit(". ")>> \o title_ \o close
             ELSE item(Chars(chapter_))

\* write_header that inserts a header cell whatever the first cell is
write_header_always_inserts(cells) ==
    IF cells = <<>> THEN [raised |-> TRUE, cells |-> cells]
    ELSE [raised |-> FALSE, cells |-> insert(cells, 0, new_markdown_cell(NOTEBOOK_HEADER))]

\* nb.write_header on a cell list: [raised, cells].  cells[0] of an empty
\* list raises IndexError.
write_header(cells) ==
    IF cells = <<>> THEN [raised |-> TRUE, cells |-> cells]
    ELSE IF startswith(cells[1].source, NOTEBOOK_HEADER_TAG)
    THEN [raised |-> FALSE, cells |-> [cells EXCEPT ![1].source = NOTEBOOK_HEADER]]
    ELSE [raised |-> FALSE, cells |-> insert(cells, 0, new_markdown_cell(NOTEBOOK_HEADER))]

\* One iteration of the loop of nb.write_navbar for the cell object that sits
\* at (1-based) position k of cells.
navbar_step(cells, k, navbar_) ==
    IF startswith(cells[k].source, NAVBAR_TAG)
    THEN [cells EXCEPT ![k].source = navbar_]
    ELSE insert(cells, 1, new_markdown_cell(navbar_))

\* nb.write_navbar: the list [cells[1], cells[-1]] is built first (IndexError
\* under two cells), then each of the two cell objects is amended or a new
\* cell is inserted at index 1.  The former last cell stays last.
write_navbar(cells, navbar_) ==
    IF Len(cells) < 2 THEN [raised |-> TRUE, cells |-> cells]
    ELSE LET s1 == navbar_step(cells, 2, navbar_)
         IN  [raised |-> FALSE, cells |-> navbar_step(s1, Len(s1), navbar_)]

\* add_course_info.py, the body of the loop for one notebook
add_course_info_nb(cells) ==
    IF cells = <<>> THEN [raised |-> TRUE, cells |-> cells]
    ELSE IF startswith(cells[1].source, COURSE_COMMENT)
    THEN [raised |-> FALSE, cells |-> [cells EXCEPT ![1].source = COURSE_INFO]]
    ELSE [raised |-> FALSE, cells |-> insert(cells, 0, new_markdown_cell(COURSE_INFO))]

\* ------------------------------------------------------ class nbcollection

\* nb.__gt__ with the comparison the wrong way round
nb_gt_reversed(a, b) == StrLess(a, b)

\* nb.__gt__
nb_gt(a, b) == StrLess(b, a)

\* sorted(): ascending; x < y on nb objects falls back to y.__gt__(x).
RECURSIVE sorted(_)
sorted(S) ==
    IF S = {} THEN <<>>
    ELSE LET m == CHOOSE x \in S : \A y \in S \ {x} : nb_gt(y, x)
         IN  <<m>> \o sorted(S \ {m})

\* [filename for filename in os.listdir(dir) if REG.match(filename)]
matching(dir) == {f \in dir : REG_match(f) # NoMatch}

\* generate_contents.iter_notebooks
iter_notebooks(dir) == sorted(matching(dir))

NoNavbar == <<>>

\* nbcollection.write_headers from notebook i on: [raised, content]
RECURSIVE write_headers_loop(_, _, _)
write_headers_loop(nbs, i, cont) ==
    IF i > Len(nbs) THEN [raised |-> FALSE, content |-> cont]
    ELSE LET r == write_header(cont[nbs[i]])
         IN  IF r.raised THEN [raised |-> TRUE, content |-> cont]
             ELSE write_headers_loop(nbs, i + 1, [cont EXCEPT ![nbs[i]] = r.cells])

\* The navbar text nbcollection.write_navbars builds for notebook i.
navbar_text(nbs, i, cont) ==
    NAVBAR_TAG
    \o (IF i > 1 THEN PREV_TEMPLATE(fmt(title(cont[nbs[i - 1]])), url(nbs[i - 1])) ELSE <<>>)
    \o CONTENTS
    \o (IF i < Len(nbs) THEN NEXT_TEMPLATE(fmt(title(cont[nbs[i + 1]])), url(nbs[i + 1])) ELSE <<>>)
    \o colab_link(nbs[i])

\* The loop of nbcollection.write_navbars from notebook i on:
\* [raised, content, navbar].  Reading the title of a neighbour can raise.
RECURSIVE write_navbars_loop(_, _, _, _)
write_navbars_loop(nbs, i, cont, nav) ==
    IF i > Len(nbs) THEN [raised |-> FALSE, content |-> cont, navbar |-> nav]
    ELSE IF i > 1 /\ title(cont[nbs[i - 1]]).raised
    THEN [raised |-> TRUE, content |-> cont, navbar |-> [nav EXCEPT ![nbs[i]] = NAVBAR_TAG]]
    ELSE IF i < Len(nbs) /\ title(cont[nbs[i + 1]]).raised
    THEN [raised |-> TRUE, content |-> cont,
          navbar |-> [nav EXCEPT ![nbs[i]] =
                         NAVBAR_TAG
                         \o (IF i > 1 THEN PREV_TEMPLATE(fmt(title(cont[nbs[i - 1]])), url(nbs[i - 1]))
                             ELSE <<>>)
                         \o CONTENTS]]
    ELSE LET text == navbar_text(nbs, i, cont)
             r == write_navbar(cont[nbs[i]], text)
             nav1 == [nav EXCEPT ![nbs[i]] = text]
         IN  IF r.raised THEN [raised |-> TRUE, content |-> cont, navbar |-> nav1]
             ELSE write_navbars_loop(nbs, i + 1, [cont EXCEPT ![nbs[i]] = r.cells], nav1)

\* '\n'.join(list of texts)
RECURSIVE join(_)
join(texts) ==
    IF texts = <<>> THEN <<>>
    ELSE IF Len(texts) = 1 THEN texts[1]
    ELSE texts[1] \o <<NL>> \o join(Tail(texts))

\* [nb.readme for nb in self.notebooks]
readme_entries(nbs, cont) ==
    [i \in 1..Len(nbs) |-> nb_readme(nbs[i], fmt(title(cont[nbs[i]])))]

\* add_course_info from notebook i of iter_notebooks() on: [raised, content]
RECURSIVE add_course_info_loop(_, _, _)
add_course_info_loop(nbs, i, cont) ==
    IF i > Len(nbs) THEN [raised |-> FALSE, content |-> cont]
    ELSE LET r == add_course_info_nb(cont[nbs[i]])
         IN  IF r.raised THEN [raised |-> TRUE, content |-> cont]
             ELSE add_course_info_loop(nbs, i + 1, [cont EXCEPT ![nbs[i]] = r.cells])

\* ----------------------------------------------------------------- actions

\* notebooks = nbcollection()
nbcollection_init ==
    /\ pc = "start"
    /\ notebooks' = sorted(matching(listing))
    /\ navbar' = [f \in matching(listing) |-> NoNavbar]
    /\ pc' = "ready"
    /\ log' = Append(log, "nbcollection")
    /\ UNCHANGED <<listing, content, readme>>
    /\ UNCHANGED <<envVars, nbVars>>

\* notebooks.write_headers()
write_headers ==
    /\ pc = "ready"
    /\ Len(log) <= MaxOps
    /\ LET r == write_headers_loop(notebooks, 1, content)
       IN  /\ content' = r.content
           /\ pc' = IF r.raised THEN "raised" ELSE "ready"
    /\ log' = Append(log, "write_headers")
    /\ UNCHANGED <<listing, notebooks, navbar, readme>>
    /\ UNCHANGED <<envVars, nbVars>>

\* notebooks.write_navbars(); next(c) on an empty collection raises StopIteration
write_navbars ==
    /\ pc = "ready"
    /\ Len(log) <= MaxOps
    /\ IF notebooks = <<>>
       THEN /\ pc' = "raised"
            /\ UNCHANGED <<content, navbar>>
       ELSE LET r == write_navbars_loop(notebooks, 1, content, navbar)
            IN  /\ content' = r.content
                /\ navbar' = r.navbar
                /\ pc' = IF r.raised THEN "raised" ELSE "ready"
    /\ log' = Append(log, "write_navbars")
    /\ UNCHANGED <<listing, notebooks, readme>>
    /\ UNCHANGED <<envVars, nbVars>>

\* notebooks.write_readme(): the file is opened and the header and the table
\* of contents link are written before the list of entries is built.
write_readme ==
    /\ pc = "ready"
    /\ Len(log) <= MaxOps
    /\ IF \E i \in 1..Len(notebooks) : title(content[notebooks[i]]).raised
       THEN /\ readme' = README_HEADER \o README_TOC
            /\ pc' = "raised"
       ELSE /\ readme' = README_HEADER \o README_TOC
                         \o join(readme_entries(notebooks, content))
                         \o <<NL>> \o README_FOOTER
            /\ pc' = "ready"
    /\ log' = Append(log, "write_readme")
    /\ UNCHANGED <<listing, content, notebooks, navbar>>
    /\ UNCHANGED <<envVars, nbVars>>

\* python add_course_info.py, a script of its own run on the directory
add_course_info ==
    /\ pc = "start"
    /\ Len(log) < MaxOps
    /\ content' = add_course_info_loop(iter_notebooks(listing), 1, content).content
    /\ log' = Append(log, "add_course_info")
    /\ UNCHANGED <<listing, notebooks, navbar, readme, pc>>
    /\ UNCHANGED <<envVars, nbVars>>

\* ------------------------------------------------------- python/helper.py

\* What a shell command makes available when it succeeds: executables on the
\* search path or in the working directory, importable modules.  A command
\* that is absent here provides nothing the helpers look at: wget only
\* downloads, idaes get-extensions installs under /root/.idaes/bin, and
\* '!unzip' is no command of the shell.
Provides(cmd) ==
    CASE cmd = "pip install -q idaes_pse" -> {"pyomo", "idaes"}
      [] cmd = "ln -s /root/.idaes/bin/ipopt ipopt" -> {"ipopt"}
      [] cmd = "conda install -c conda-forge ipopt" -> {"ipopt"}
      [] cmd = "apt-get install -y -qq glpk-utils" -> {"glpsol"}
      [] cmd = "conda install -c conda-forge glpk" -> {"glpsol"}
      [] cmd = "unzip -o -q cbc-linux64" -> {"cbc"}
      [] cmd = "apt-get install -y -qq coinor-cbc" -> {"cbc"}
      [] cmd = "unzip -o -q bonmin-linux64" -> {"bonmin"}
      [] cmd = "unzip -o -q couenne-linux64" -> {"couenne"}
      [] cmd = "unzip -o -q gecode-linux64" -> {"gecode"}
      [] cmd = "pip install -q condacolab" -> {"condacolab"}
      [] cmd = "conda install -y pyscipopt" -> {"scip"}
      [] cmd = "pip install gurobipy" -> {"gurobipy"}
      [] cmd = "pip install cplex" -> {"cplex"}
      [] cmd = "pip install mosek" -> {"mosek.fusion"}
      [] cmd = "pip install xpress" -> {"xpress"}
      [] cmd = "conda install -c fico-xpress xpress" -> {"xpress"}
      [] cmd = "pip install -q pyomo" -> {"pyomo"}
      [] cmd = "unzip -o -q ipopt-linux64" -> {"ipopt"}
      [] cmd = "conda install -c conda-forge ipopt " -> {"ipopt"}
      [] cmd = "conda install -c conda-forge coincbc " -> {"cbc"}
      [] OTHER -> {}

Things ==
    {"pyomo", "idaes", "ipopt", "glpsol", "cbc", "bonmin", "couenne", "gecode", "scip",
     "condacolab", "gurobipy", "cplex", "mosek.fusion", "xpress"}

\* os.system(cmd): the environment after the command, which worked (ok) or not.
\* os.system raises nothing when the command fails.
system(cmd, env, ok) == IF ok THEN env \cup Provides(cmd) ELSE env

_check_available(executable_name, env) == executable_name \in env

package_available(package_name, env) ==
    IF package_name = "glpk" THEN _check_available("glpsol", env)
    ELSE _check_available(package_name, env)

\* package_found that finds nothing
package_found_never(package_name, env) == [ret |-> FALSE, printed |-> <<>>]

\* package_found: [ret, printed]
package_found(package_name, env) ==
    IF package_available(package_name, env)
    THEN [ret |-> TRUE, printed |-> <<package_name \o " was previously installed">>]
    ELSE [ret |-> FALSE, printed |-> <<>>]

\* package_confirm: [ret, printed]
package_confirm(package_name, env) ==
    IF package_available(package_name, env)
    THEN [ret |-> "True", printed |-> <<"installation successful">>]
    ELSE [ret |-> "False", printed |-> <<"installation failed">>]

\* The outcome of a call: the returned value ("True", "False", "None"; "" when
\* an exception escapes), what was printed, the shell commands issued, the
\* exception that escaped ("" when none) and the environment left behind.
Out(ret, printed, shell, raised, env) ==
    [ret |-> ret, printed |-> printed, shell |-> shell, raised |-> raised, env |-> env]

\* A helper of the form: package_found, else one branch of shell commands on
\* Colab and one elsewhere, then package_confirm.  foundret is what the
\* function returns when the package was found.
FoundOr(package_name, foundret, env, rest) ==
    IF package_found(package_name, env).ret
    THEN {Out(foundret, package_found(package_name, env).printed, <<>>, "", env)}
    ELSE rest

\* Run the commands in order, each succeeding or not: the possible environments.
RECURSIVE RunAll(_, _)
RunAll(cmds, env) ==
    IF cmds = <<>> THEN {env}
    ELSE UNION {RunAll(Tail(cmds), system(Head(cmds), env, ok)) : ok \in BOOLEAN}

\* print(msg); os.system(each of cmds); return package_confirm(package_name)
InstallAndConfirm(package_name, msg, cmds, env) ==
    {Out(package_confirm(package_name, e).ret,
         <<msg>> \o package_confirm(package_name, e).printed, cmds, "", e) : e \in RunAll(cmds, env)}

install_pyomo(env, co) ==
    FoundOr("pyomo", "True", env,
        InstallAndConfirm("pyomo", "Installing pyomo from idaes_pse via pip ... ",
                          <<"pip install -q idaes_pse">>, env))

install_idaes(env, co) ==
    FoundOr("idaes", "None", env,
        InstallAndConfirm("idaes", "Installing idaes from idaes_pse via pip ... ",
                          <<"pip install -q idaes_pse">>, env))

\* install_ipopt after package_found: the idaes attempt on Colab, a first
\* package_confirm, then the zip file on Colab or conda elsewhere.
install_ipopt_rest(env, co) ==
    LET msg1 == IF co THEN <<"Installing ipopt and k_aug on Google Colab via idaes get-extensions ... ">>
                ELSE <<>>
        cmds1 == IF co THEN <<"idaes get-extensions", "ln -s /root/.idaes/bin/ipopt ipopt",
                              "ln -s /root/.idaes/bin/k_aug k_aug">>
                 ELSE <<>>
        msg2 == IF co THEN "Installing ipopt on Google Colab via zip file ... "
                ELSE "Installing Ipopt via conda ... "
        cmds2 == IF co THEN <<"wget -N -q \"https://ampl.com/dl/open/ipopt/ipopt-linux64.zip\"",
                              "!unzip -o -q ipopt-linux64">>
                 ELSE <<"conda install -c conda-forge ipopt">>
    IN  UNION {
          IF package_confirm("ipopt", e1).ret = "True"
          THEN {Out("True", msg1 \o package_confirm("ipopt", e1).printed, cmds1, "", e1)}
          ELSE {Out(o.ret, msg1 \o package_confirm("ipopt", e1).printed \o o.printed,
                    cmds1 \o o.shell, "", o.env) :
                  o \in InstallAndConfirm("ipopt", msg2, cmds2, e1)}
          : e1 \in RunAll(cmds1, env)}

install_ipopt(env, co) == FoundOr("ipopt", "True", env, install_ipopt_rest(env, co))

install_glpk(env, co) ==
    FoundOr("glpk", "True", env,
        IF co THEN InstallAndConfirm("glpk", "Installing glpk on Google Colab via apt-get ... ",
                                     <<"apt-get install -y -qq glpk-utils">>, env)
        ELSE InstallAndConfirm("glpk", "Installing glpk via conda ... ",
                               <<"conda install -c conda-forge glpk">>, env))

install_cbc(env, co) ==
    FoundOr("cbc", "True", env,
        IF co THEN InstallAndConfirm("cbc", "Installing cbc on Google Colab via zip file ... ",
                                     <<"wget -N -q \"https://ampl.com/dl/open/cbc/cbc-linux64.zip\"",
                                       "unzip -o -q cbc-linux64">>, env)
        ELSE InstallAndConfirm("cbc", "Installing cbc via apt-get ... ",
                               <<"apt-get install -y -qq coinor-cbc">>, env))

install_bonmin(env, co) ==
    FoundOr("bonmin", "True", env,
        IF co THEN InstallAndConfirm("bonmin", "Installing bonmin on Google Colab via zip file ... ",
                                     <<"wget -N -q \"https://ampl.com/dl/open/bonmin/bonmin-linux64.zip\"",
                                       "unzip -o -q bonmin-linux64">>, env)
        ELSE InstallAndConfirm("bonmin", "No procedure implemented to install bonmin ... ", <<>>, env))

install_couenne(env, co) ==
    FoundOr("couenne", "None", env,
        IF co THEN InstallAndConfirm("couenne", "Installing couenne on Google Colab via via zip file ... ",
                                     <<"wget -N -q \"https://ampl.com/dl/open/couenne/couenne-linux64.zip\"",
                                       "unzip -o -q couenne-linux64">>, env)
        ELSE InstallAndConfirm("couenne", "No procedure implemented to install couenne ... ", <<>>, env))

install_gecode(env, co) ==
    FoundOr("gecode", "None", env,
        IF co THEN InstallAndConfirm("gecode", "Installing gecode on Google Colab via via zip file ... ",
                                     <<"wget -N -q \"https://ampl.com/dl/open/gecode/gecode-linux64.zip\"",
                                       "unzip -o -q gecode-linux64">>, env)
        ELSE InstallAndConfirm("gecode", "No procedure implemented to install gecode ... ", <<>>, env))

\* install_scip on Colab after package_found: 'import condacolab' inside
\* try/except; the except branch installs it with pip and imports it again,
\* outside any try, so an ImportError of the second import escapes.
install_scip_colab(env) ==
    LET msg == "Installing scip on Google Colab via conda ... "
    IN  IF "condacolab" \in env
        THEN InstallAndConfirm("scip", msg, <<"conda install -y pyscipopt">>, env)
        ELSE UNION {
               IF "condacolab" \notin e1
               THEN {Out("", <<msg>>, <<"pip install -q condacolab">>, "ImportError", e1)}
               ELSE {Out(o.ret, o.printed, <<"pip install -q condacolab">> \o o.shell, "", o.env) :
                       o \in InstallAndConfirm("scip", msg, <<"conda install -y pyscipopt">>, e1)}
               : e1 \in RunAll(<<"pip install -q condacolab">>, env)}

install_scip(env, co) ==
    FoundOr("scip", "None", env,
        IF co THEN install_scip_colab(env)
        ELSE {Out(package_confirm("scip", env).ret, package_confirm("scip", env).printed,
                  <<>>, "", env)})

\* The helpers that test the package by importing it: install_gurobi,
\* install_cplex, install_mosek, install_xpress.  cmds are the commands of the
\* branch taken, failed the message of the last except clause.
ImportChecked(module, found, msg, cmds, failed, env) ==
    IF module \in env THEN {Out("None", <<found>>, <<>>, "", env)}
    ELSE {IF module \in e
          THEN Out("True", <<msg, "installation successful">>, cmds, "", e)
          ELSE Out("False", <<msg, failed>>, cmds, "", e) : e \in RunAll(cmds, env)}

install_gurobi(env, co) ==
    IF co THEN ImportChecked("gurobipy", "gurobi was previously installed",
                             "Installing gurobi on Google Colab via pip ... ",
                             <<"pip install gurobipy">>, "installation failed", env)
    ELSE ImportChecked("gurobipy", "gurobi was previously installed",
                       "Consult gurobi.com for installation procedures ... ",
                       <<>>, "installation failed", env)

install_cplex(env, co) ==
    IF co THEN ImportChecked("cplex", "cplex was previously installed",
                             "Installing cplex on Google Colab via pip ... ",
                             <<"pip install cplex">>, "installation failed", env)
    ELSE ImportChecked("cplex", "cplex was previously installed",
                       "Consult ibm.com for installation procedures ... ",
                       <<>>, "installation failed", env)

install_mosek(env, co) ==
    IF co THEN ImportChecked("mosek.fusion", "mosek was previously installed",
                             "Installing mosek on Google Colab via pip ... ",
                             <<"pip install mosek">>, "installation failed.", env)
    ELSE ImportChecked("mosek.fusion", "mosek was previously installed",
                       "Consult docs.mosek.com for installation procedures ... ",
                       <<>>, "installation failed.", env)

install_xpress(env, co) ==
    IF co THEN ImportChecked("xpress", "Xpress was previously installed",
                             "Installing xpress on Google Colab via pip ... ",
                             <<"pip install xpress">>, "installation failed", env)
    ELSE ImportChecked("xpress", "Xpress was previously installed",
                       "Installing xpress via conda ... ",
                       <<"conda install -c fico-xpress xpress">>, "installation failed", env)

\* ------------------- notebooks/01.04: the cross-platform imports cell

\* One 'check, install if missing, assert' block of the cell, run on the
\* outcome o of the blocks before it: the commands of the branch taken are
\* issued when the executable is missing, and a failing assert ends the cell.
cell_block(o, executable, cmds) ==
    IF o.raised # "" THEN {o}
    ELSE IF executable \in o.env THEN {o}
    ELSE {Out("", <<>>, o.shell \o cmds,
              IF executable \in e THEN "" ELSE "AssertionError", e) : e \in RunAll(cmds, o.env)}

imports_cell(env, co) ==
    LET b1 == cell_block(Out("", <<>>, <<>>, "", env), "pyomo", <<"pip install -q pyomo">>)
        b2 == UNION {cell_block(o, "ipopt",
                        IF co THEN <<"wget -N -q \"https://ampl.com/dl/open/ipopt/ipopt-linux64.zip\"",
                                     "unzip -o -q ipopt-linux64">>
                        ELSE <<"conda install -c conda-forge ipopt ">>) : o \in b1}
    IN  UNION {cell_block(o, "cbc",
                  IF co THEN <<"apt-get install -y -qq coinor-cbc">>
                  ELSE <<"conda install -c conda-forge coincbc ">>) : o \in b2}

\* ------------------------------------------------------- environment actions

\* A call of function fn with the given possible outcomes.
Call(fn, outcomes) ==
    /\ call.n < MaxCalls
    /\ \E o \in outcomes :
          /\ avail' = o.env
          /\ call' = [fn |-> fn, n |-> call.n + 1, before |-> avail, ret |-> o.ret,
                      printed |-> o.printed, shell |-> o.shell, raised |-> o.raised]
    /\ UNCHANGED colab
    /\ UNCHANGED <<toolVars, nbVars>>

run_install_pyomo == Call("install_pyomo", install_pyomo(avail, colab))

run_install_idaes == Call("install_idaes", install_idaes(avail, colab))

run_install_ipopt == Call("install_ipopt", install_ipopt(avail, colab))

run_install_glpk == Call("install_glpk", install_glpk(avail, colab))

run_install_cbc == Call("install_cbc", install_cbc(avail, colab))

run_install_bonmin == Call("install_bonmin", install_bonmin(avail, colab))

run_install_couenne == Call("install_couenne", install_couenne(avail, colab))

run_install_gecode == Call("install_gecode", install_gecode(avail, colab))

run_install_scip == Call("install_scip", install_scip(avail, colab))

run_install_gurobi == Call("install_gurobi", install_gurobi(avail, colab))

run_install_cplex == Call("install_cplex", install_cplex(avail, colab))

run_install_mosek == Call("install_mosek", install_mosek(avail, colab))

run_install_xpress == Call("install_xpress", install_xpress(avail, colab))

run_imports_cell == Call("imports_cell", imports_cell(avail, colab))

\* ------------------------------- notebooks/04.02: single machine scheduling

\* Python's max and min of two numbers.
max_first(a, b) == a

max(a, b) == IF a >= b THEN a ELSE b

\* A dict: a function on the set of its keys, <<>> for {}.  d[k] = v adds or
\* replaces.
Put(d, k, v) == [x \in (DOMAIN d) \cup {k} |-> IF x = k THEN v ELSE d[x]]

\* The job names of the notebook's JOBS table, in its order.
JobNames == <<"A", "B", "C", "D", "E", "F", "G">>

\* sorted(JOBS.keys()) of a table with n jobs.
sorted_keys(JOBS) == SubSeq(JobNames, 1, Cardinality(DOMAIN JOBS))

\* schedule(JOBS, order): the for loop from position i on, with the running
\* finish time and the SCHEDULE built so far.
RECURSIVE schedule_loop(_, _, _, _, _)
schedule_loop(JOBS, order, i, finish, SCHEDULE) ==
    IF i > Len(order) THEN SCHEDULE
    ELSE LET job == order[i]
             start == max(JOBS[job].release, finish)
             finish_ == start + JOBS[job].duration
         IN  schedule_loop(JOBS, order, i + 1, finish_,
                           Put(SCHEDULE, job, [start |-> start, finish |-> finish_]))

schedule(JOBS, order) == schedule_loop(JOBS, order, 1, 0, <<>>)

\* sorted(JOBS, key=release): a stable sort of the keys by release time.
RECURSIVE sorted_by_release(_, _)
sorted_by_release(JOBS, keys) ==
    IF keys = <<>> THEN <<>>
    ELSE LET least == CHOOSE i \in 1..Len(keys) :
                         /\ \A j \in 1..Len(keys) :
                               JOBS[keys[i]].release <= JOBS[keys[j]].release
                         /\ \A j \in 1..(i - 1) :
                               JOBS[keys[j]].release > JOBS[keys[i]].release
         IN  <<keys[least]>>
             \o sorted_by_release(JOBS, SubSeq(keys, 1, least - 1)
                                        \o SubSeq(keys, least + 1, Len(keys)))

fifo(JOBS) == schedule(JOBS, sorted_by_release(JOBS, sorted_keys(JOBS)))

\* min(JOBS[job]['release'] for job in unfinished_jobs)
min_release_zero(JOBS, unfinished_jobs) == 0

min_release(JOBS, unfinished_jobs) ==
    CHOOSE r \in {JOBS[j].release : j \in unfinished_jobs} :
        \A j \in unfinished_jobs : r <= JOBS[j].release

\* The dict lifo / edd / spt of one iteration: the unfinished jobs released
\* by start, each with the attribute the rule looks at.
released(JOBS, unfinished_jobs, start, attribute) ==
    [job \in {j \in unfinished_jobs : JOBS[j].release <= start} |->
        JOBS[job][attribute]]

\* max(d, key=d.get) and min(d, key=d.get): the keys that can be returned.
\* Among equal values Python returns the first in the iteration order of the
\* set unfinished_jobs, which is not fixed.
max_key(d) == {k \in DOMAIN d : \A j \in DOMAIN d : d[j] <= d[k]}

min_key(d) == {k \in DOMAIN d : \A j \in DOMAIN d : d[k] <= d[j]}

\* The cells run top to bottom.  The call of schedule at top level, with the
\* default or a given order: SCHEDULE = schedule(JOBS, order).
cell_schedule ==
    /\ sched.pc = "top"
    /\ sched.fn = "none"
    /\ \E order \in UNION {[1..n -> DOMAIN sched.JOBS] : n \in 0..MaxOrder} :
          sched' = [sched EXCEPT !.fn = "schedule", !.order = order,
                                 !.SCHEDULE = schedule(sched.JOBS, order)]
    /\ UNCHANGED <<toolVars, envVars, plan, stock>>

\* SCHEDULE = fifo(JOBS)
cell_fifo ==
    /\ sched.pc = "top"
    /\ sched.fn \in {"none", "schedule"}
    /\ sched' = [sched EXCEPT !.fn = "fifo",
                    !.order = sorted_by_release(sched.JOBS, sorted_keys(sched.JOBS)),
                    !.SCHEDULE = fifo(sched.JOBS)]
    /\ UNCHANGED <<toolVars, envVars, plan, stock>>

\* The first statements of lifo, edd and spt; each is called by the cell
\* that follows the cell of the rule before it.
dispatch_call(fn, previous) ==
    /\ sched.pc = "top"
    /\ sched.fn = previous
    /\ sched' = [sched EXCEPT !.fn = fn, !.pc = "loop", !.start = 0,
                              !.unfinished_jobs = DOMAIN sched.JOBS,
                              !.assigned = <<>>]
    /\ UNCHANGED <<toolVars, envVars, plan, stock>>

\* One iteration of the while loop of lifo, edd or spt.  The functions have
\* no SCHEDULE of their own: they assign into the global one.  max and min of
\* an empty dict raise ValueError.  lifo takes the max of its dict (largest),
\* edd and spt the min.
dispatch_iteration(fn, attribute, largest) ==
    /\ sched.pc = "loop"
    /\ sched.fn = fn
    /\ sched.unfinished_jobs # {}
    /\ LET start == max(sched.start, min_release(sched.JOBS, sched.unfinished_jobs))
           d == released(sched.JOBS, sched.unfinished_jobs, start, attribute)
       IN  IF DOMAIN d = {}
           THEN sched' = [sched EXCEPT !.pc = "raised", !.start = start]
           ELSE \E job \in (IF largest THEN max_key(d) ELSE min_key(d)) :
                   LET finish == start + sched.JOBS[job].duration
                   IN  sched' = [sched EXCEPT
                          !.unfinished_jobs = @ \ {job},
                          !.SCHEDULE = Put(@, job, [machine |-> 1, start |-> start,
                                                     finish |-> finish]),
                          !.start = finish,
                          !.assigned = Append(@, [job |-> job, start |-> start,
                                                  finish |-> finish])]
    /\ UNCHANGED <<toolVars, envVars, plan, stock>>

call_lifo == dispatch_call("lifo", "fifo")

call_edd == dispatch_call("edd", "lifo")

call_spt == dispatch_call("spt", "edd")

lifo_iteration == dispatch_iteration("lifo", "release", TRUE)

edd_iteration == dispatch_iteration("edd", "due", FALSE)

spt_iteration == dispatch_iteration("spt", "duration", FALSE)

\* return SCHEDULE, once the while condition is false.
dispatch_return ==
    /\ sched.pc = "loop"
    /\ sched.unfinished_jobs = {}
    /\ sched' = [sched EXCEPT !.pc = "top"]
    /\ UNCHANGED <<toolVars, envVars, plan, stock>>

\* ------------------------------- notebooks/04.04: maintenance planning

\* sum(v[t+s] for s in RangeSet(0, width - 1) if t + s <= T)
RECURSIVE window_sum(_, _, _, _)
window_sum(v, t, width, T) ==
    IF width <= 0 THEN 0
    ELSE window_sum(v, t, width - 1, T)
         + (IF t + width - 1 <= T THEN v[t + width - 1] ELSE 0)

\* m.Y = RangeSet(1, T - M + 1)
Y(T, M) == 1..(T - M + 1)

\* m.sumy: the required number P of maintenance starts, summed over m.Y.
sumy(y, T, M, P) == window_sum(y, 1, T - M + 1, T) = P

\* m.sprd: no more than one start in a window (m.S: width M; m.W: width M + N).
sprd_S(y, T, M, width) == \A t \in Y(T, M) : window_sum(y, t, M, T) <= 1

sprd(y, T, M, width) == \A t \in Y(T, M) : window_sum(y, t, width, T) <= 1

\* m.bigm: sum(x[t+s] for s in m.S) <= coefficient * (1 - y[t])
bigm_without_y(x, y, T, M, coefficient) ==
    \A t \in Y(T, M) : window_sum(x, t, M, T) <= coefficient

bigm(x, y, T, M, coefficient) ==
    \A t \in Y(T, M) : window_sum(x, t, M, T) <= coefficient * (1 - y[t])

\* m.disj: for each t one of the two disjuncts is selected and holds.
disj(x, y, T, M) ==
    \A t \in Y(T, M) :
        \E disjunct \in 1..2 :
            IF disjunct = 1 THEN y[t] = 0 ELSE window_sum(x, t, M, T) = 0

\* m.ramp with the bounds of upos and uneg, x in units of 1 / XLevels and the
\* bounds in ten-thousandths: x[t] = x[t-1] + upos[t] - uneg[t] for t > 1.
upos_max == 3334
uneg_max == 5000

ramp(x, T) ==
    \A t \in 2..T :
        /\ (x[t] - x[t - 1]) * 10000 <= upos_max * XLevels
        /\ (x[t - 1] - x[t]) * 10000 <= uneg_max * XLevels

Binary(T) == [1..T -> 0..1]

\* The assignments [x, y] that satisfy the constraints of each model: for
\* each y that satisfies the constraints on y alone, the x that go with it.
maintenance_planning_bigm(T, M, P) ==
    UNION {{[x |-> x, y |-> y] : x \in {x \in Binary(T) : bigm(x, y, T, M, M)}} :
           y \in {y \in Binary(T) : sumy(y, T, M, P) /\ sprd(y, T, M, M)}}

maintenance_planning_gdp(T, M, P) ==
    UNION {{[x |-> x, y |-> y] : x \in {x \in Binary(T) : disj(x, y, T, M)}} :
           y \in {y \in Binary(T) : sumy(y, T, M, P) /\ sprd(y, T, M, M)}}

maintenance_planning_ramp_operational(T, M, P, N) ==
    UNION {{[x |-> x, y |-> y] :
               x \in {x \in [1..T -> 0..XLevels] :
                         ramp(x, T) /\ bigm(x, y, T, M, (M + N) * XLevels)}} :
           y \in {y \in Binary(T) : sumy(y, T, M, P) /\ sprd(y, T, M, M + N)}}

\* m = maintenance_planning_...(c, T, M, P): the model is built, not solved.
build(model, N) ==
    /\ plan.status # "idle"
    /\ plan' = [plan EXCEPT !.model = model, !.N = N, !.status = "built",
                            !.x = <<>>, !.y = <<>>]
    /\ UNCHANGED <<toolVars, envVars, sched, stock>>

build_bigm == build("bigm", 0)

build_gdp == build("gdp", 0)

build_ramp_operational == \E N \in 0..MaxN : build("ramp_operational", N)

\* pyo.SolverFactory('cbc').solve(m): the solver leaves in x and y an
\* assignment that satisfies the constraints, if there is one.
solve ==
    /\ plan.status = "built"
    /\ LET feasible ==
              CASE plan.model = "bigm" ->
                     maintenance_planning_bigm(plan.T, plan.M, plan.P)
                [] plan.model = "gdp" ->
                     maintenance_planning_gdp(plan.T, plan.M, plan.P)
                [] OTHER ->
                     maintenance_planning_ramp_operational(plan.T, plan.M, plan.P, plan.N)
       IN  IF feasible = {}
           THEN plan' = [plan EXCEPT !.status = "infeasible"]
           ELSE \E a \in feasible :
                   plan' = [plan EXCEPT !.status = "optimal", !.x = a.x, !.y = a.y]
    /\ UNCHANGED <<toolVars, envVars, sched, stock>>

\* ------------------------------------- notebooks/08.01: get_stock_data

\* k = 5
Attempts == 5

\* while k > 0
while_condition_ge(k) == k >= 0

while_condition(k) == k > 0

\* Per symbol of the list: the calls of service(s), the attempts that raised,
\* whether the file was saved, a call made after the save, and the output.
NoAttempt ==
    [calls |-> 0, raised |-> 0, saved |-> FALSE, late |-> FALSE, printed |-> <<>>]

\* The call: a single string becomes a list of one symbol.
get_stock_data ==
    /\ stock.pc = "call"
    /\ LET symbols == IF stock.arg.isstr THEN <<stock.arg.value>> ELSE stock.arg.value
       IN  stock' = [stock EXCEPT !.symbols = symbols, !.pc = "for", !.i = 0,
                                  !.entry = [j \in 1..Len(symbols) |-> NoAttempt]]
    /\ UNCHANGED <<toolVars, envVars, sched, plan>>

\* for s in symbols: print('downloading', s, end=''); k = 5
for_symbol ==
    /\ stock.pc = "for"
    /\ IF stock.i < Len(stock.symbols)
       THEN stock' = [stock EXCEPT !.i = @ + 1, !.k = Attempts, !.pc = "while",
                         !.entry[stock.i + 1].printed = Append(@, "downloading")]
       ELSE stock' = [stock EXCEPT !.pc = "done"]
    /\ UNCHANGED <<toolVars, envVars, sched, plan>>

\* One pass of the while body: k -= 1, then service(s) raises, or S.to_csv
\* raises, or both work; the bare except prints '.' and sleeps, success
\* prints ' success' and leaves the loop.
attempt ==
    /\ stock.pc = "while"
    /\ while_condition(stock.k)
    /\ \E outcome \in {"service raises", "to_csv raises", "success"} :
          LET e == stock.entry[stock.i]
              called == [e EXCEPT !.calls = @ + 1, !.late = e.saved]
          IN  IF outcome = "success"
              THEN stock' = [stock EXCEPT !.k = @ - 1, !.pc = "if",
                                !.entry[stock.i] =
                                    [called EXCEPT !.saved = TRUE,
                                                   !.printed = Append(@, " success")]]
              ELSE stock' = [stock EXCEPT !.k = @ - 1,
                                !.entry[stock.i] =
                                    [called EXCEPT !.raised = @ + 1,
                                                   !.printed = Append(@, ".")]]
    /\ UNCHANGED <<toolVars, envVars, sched, plan>>

\* After the loop, left by break or by its condition: if k < 0: print('fail')
after_while ==
    /\ stock.pc = "if" \/ (stock.pc = "while" /\ ~while_condition(stock.k))
    /\ stock' = [stock EXCEPT !.pc = "for",
                    !.entry[stock.i].printed = IF stock.k < 0 THEN Append(@, "fail") ELSE @]
    /\ UNCHANGED <<toolVars, envVars, sched, plan>>

\* ------------------------------------------------------------ initial states

Name(prefix, sec, name, tail) == prefix \o <<".">> \o sec \o <<"-">> \o name \o Ipynb \o tail

\* Directory entries: notebooks of front matter, chapters and appendices, the
\* generated toc.ipynb and index.ipynb, and entries that are no notebooks.
EntryNames ==
    { Name(<<"0", "0">>, <<"0", "0">>, <<"a">>, <<>>),
      Name(<<"0", "0">>, <<"0", "1">>, <<"b">>, <<>>),
      Name(<<"0", "1">>, <<"0", "0">>, <<"a">>, <<>>),
      Name(<<"0", "1">>, <<"0", "2">>, <<"b">>, <<>>),
      Name(<<"1", "0">>, <<"1", "0">>, <<"a">>, <<>>),
      Name(<<"A">>, <<"0", "0">>, <<"a">>, <<>>),
      Name(<<"B">>, <<"0", "1">>, <<"b">>, <<>>),
      Name(<<"0", "1">>, <<"0", "0">>, <<"a">>, <<"~">>),
      Name(<<"a">>, <<"0", "0">>, <<"a">>, <<>>),
      <<"0", "1", ".", "0", "0", "-", "a", ".", "t", "x", "t">>,
      <<"t", "o", "c">> \o Ipynb,
      <<"i", "n", "d", "e", "x">> \o Ipynb }

TitleCell == new_markdown_cell(<<Lit("#"), Lit(" "), Lit("Production Models"), NL, Lit("Keywords: glpk")>>)

\* The cells a notebook file may hold.
CellAlphabet ==
    { new_markdown_cell(NOTEBOOK_HEADER),
      new_markdown_cell(NOTEBOOK_HEADER_TAG \o <<Lit("an older header")>>),
      new_markdown_cell(NAVBAR_TAG \o <<Lit("an older navbar")>>),
      new_markdown_cell(COURSE_COMMENT \o <<Lit("an older course comment")>>),
      TitleCell,
      new_code_cell(<<Lit("import pyomo.environ as pyo")>>) }

RECURSIVE CellLists(_)
CellLists(n) ==
    IF n = 0 THEN {<<>>}
    ELSE LET shorter == CellLists(n - 1)
         IN  shorter \cup {Append(l, c) : l \in {x \in shorter : Len(x) = n - 1}, c \in CellAlphabet}

\* A notebook as its author left it, and one the tooling has processed.
FreshCells == <<TitleCell, new_code_cell(<<Lit("import pyomo.environ as pyo")>>)>>

ProcessedCells ==
    <<new_markdown_cell(NOTEBOOK_HEADER),
      new_markdown_cell(NAVBAR_TAG \o <<Lit("an older navbar")>>)>>
    \o FreshCells
    \o <<new_markdown_cell(NAVBAR_TAG \o <<Lit("an older navbar")>>)>>

InitTools(dir, cont) ==
    /\ listing = dir
    /\ content = cont
    /\ notebooks = <<>>
    /\ navbar = <<>>
    /\ readme = <<>>
    /\ pc = "start"
    /\ log = <<>>

\* Either one notebook with any cells, or a directory of up to MaxFiles
\* entries whose notebooks are all fresh or all processed.
InitDir ==
    \/ \E l \in CellLists(MaxCells) \ {<<>>} :
          LET f == Name(<<"0", "1">>, <<"0", "2">>, <<"b">>, <<>>)
          IN  InitTools({f}, [x \in {f} |-> l])
    \/ \E dir \in SUBSET EntryNames, shape \in {FreshCells, ProcessedCells} :
          /\ Cardinality(dir) <= MaxFiles
          /\ InitTools(dir, [x \in dir |-> shape])

NoCall ==
    [fn |-> "none", n |-> 0, before |-> {}, ret |-> "", printed |-> <<>>, shell |-> <<>>,
     raised |-> ""]

EnvIdle ==
    /\ avail = {}
    /\ colab = FALSE
    /\ call = NoCall

\* No notebook of chapters 4 and 8 is being run.
NbIdle ==
    /\ sched = "idle"
    /\ plan = "idle"
    /\ stock = "idle"

Init == InitDir /\ EnvIdle /\ NbIdle

Next ==
    \/ nbcollection_init
    \/ write_headers
    \/ write_navbars
    \/ write_readme
    \/ add_course_info

Spec == Init /\ [][Next]_vars

\* The installation helpers and the imports cell, from an environment in
\* which at most MaxInstalled packages are present, on Colab or elsewhere.
InitInstall ==
    /\ InitTools({}, <<>>)
    /\ avail \in {e \in SUBSET Things : Cardinality(e) <= MaxInstalled}
    /\ colab \in BOOLEAN
    /\ call = NoCall
    /\ NbIdle

NextInstall ==
    \/ run_install_pyomo
    \/ run_install_idaes
    \/ run_install_ipopt
    \/ run_install_glpk
    \/ run_install_cbc
    \/ run_install_bonmin
    \/ run_install_couenne
    \/ run_install_gecode
    \/ run_install_scip
    \/ run_install_gurobi
    \/ run_install_cplex
    \/ run_install_mosek
    \/ run_install_xpress
    \/ run_imports_cell

SpecInstall == InitInstall /\ [][NextInstall]_vars

\* ---------------------------------------------- scheduling: initial states

\* A table of n jobs whose releases, durations and due times are drawn from
\* the given sets.
JobTables(releases, durations, dues) ==
    UNION {[{JobNames[i] : i \in 1..n} ->
              [release : releases, duration : durations, due : dues]] :
           n \in 1..MaxJobs}

SchedTop(JOBS, SCHEDULE, fn, order) ==
    [JOBS |-> JOBS, SCHEDULE |-> SCHEDULE, fn |-> fn, order |-> order, pc |-> "top",
     unfinished_jobs |-> {}, start |-> 0, assigned |-> <<>>]

\* The state after the cell that defines JOBS: any table, times that may be
\* negative, no SCHEDULE yet.
InitSchedule ==
    /\ InitTools({}, <<>>) /\ EnvIdle
    /\ plan = "idle" /\ stock = "idle"
    /\ \E JOBS \in JobTables((0 - 1)..MaxTime, (0 - 1)..MaxTime, {MaxTime}) :
          sched = SchedTop(JOBS, <<>>, "none", <<>>)

NextSchedule ==
    \/ cell_schedule
    \/ cell_fifo

SpecSchedule == InitSchedule /\ [][NextSchedule]_vars

\* The state after SCHEDULE = fifo(JOBS), for tables of non-negative times;
\* a job is due early or late.
InitDispatch ==
    /\ InitTools({}, <<>>) /\ EnvIdle
    /\ plan = "idle" /\ stock = "idle"
    /\ \E JOBS \in JobTables(0..MaxTime, 0..MaxTime, {0, MaxTime}) :
          sched = SchedTop(JOBS, fifo(JOBS), "fifo",
                           sorted_by_release(JOBS, sorted_keys(JOBS)))

NextDispatch ==
    \/ call_lifo
    \/ call_edd
    \/ call_spt
    \/ lifo_iteration
    \/ edd_iteration
    \/ spt_iteration
    \/ dispatch_return

SpecDispatch == InitDispatch /\ [][NextDispatch]_vars

\* ------------------------------------- maintenance planning: initial states

\* The parameter cell: a horizon T, a maintenance length M of at least one
\* day that fits into it, and P periods.
InitPlan ==
    /\ InitTools({}, <<>>) /\ EnvIdle
    /\ sched = "idle" /\ stock = "idle"
    /\ \E T \in 1..MaxT, P \in 0..MaxP :
          \E M \in 1..T :
             plan = [T |-> T, M |-> M, P |-> P, N |-> 0, model |-> "none",
                     status |-> "none", x |-> <<>>, y |-> <<>>]

NextPlan ==
    \/ build_bigm
    \/ build_gdp
    \/ build_ramp_operational
    \/ solve

SpecPlan == InitPlan /\ [][NextPlan]_vars

\* --------------------------------------------- get_stock_data: initial states

Symbols == {"AAPL", "AXP"}

\* get_stock_data is about to be called with one symbol or with a list of up
\* to MaxSymbols symbols.
InitStock ==
    /\ InitTools({}, <<>>) /\ EnvIdle
    /\ sched = "idle" /\ plan = "idle"
    /\ \E arg \in [isstr : {TRUE}, value : Symbols]
                  \cup [isstr : {FALSE},
                        value : UNION {[1..n -> Symbols] : n \in 0..MaxSymbols}] :
          stock = [arg |-> arg, symbols |-> <<>>, i |-> 0, k |-> 0, pc |-> "call",
                   entry |-> <<>>]

NextStock ==
    \/ get_stock_data
    \/ for_symbol
    \/ attempt
    \/ after_while

\* The function runs to completion: no step that can be taken is put off
\* for ever.
SpecStock == InitStock /\ [][NextStock]_vars /\ WF_vars(NextStock)

\* ---------------------------------------------------- notebook tooling claims

LastOp == IF log = <<>> THEN "none" ELSE log[Len(log)]

IsNavCell(cell) == startswith(cell.source, NAVBAR_TAG)

Collection == {notebooks[i] : i \in 1..Len(notebooks)}

\* C1: after write_headers() followed by write_navbars(), every notebook of the
\* collection has the header comment as its first cell, a navigation cell as
\* its second cell and a navigation cell as its last cell.
C1_HeaderThenNavbarLayout ==
    (/\ Len(log) >= 2
     /\ log[Len(log) - 1] = "write_headers"
     /\ log[Len(log)] = "write_navbars")
    => \A f \in Collection :
          /\ Len(content[f]) >= 2
          /\ content[f][1].source = NOTEBOOK_HEADER
          /\ IsNavCell(content[f][2])
          /\ IsNavCell(content[f][Len(content[f])])

\* C2: a second write_navbars() leaves every notebook's cell list as the first
\* run left it.
C2_SecondNavbarRunChangesNothing ==
    [][(LastOp = "write_navbars" /\ pc = "ready" /\ log' = Append(log, "write_navbars"))
       => content' = content]_vars

TagCount(cells, tag) == Cardinality({i \in 1..Len(cells) : startswith(cells[i].source, tag)})

\* What C3 says of one call on cell list before giving after, for the tag and
\* the full text of the header, under the assumption assumed(before).
HeaderCallOk(before, after, tag, text, assumed) ==
    /\ after[1].source = text
    /\ assumed => TagCount(after, tag) = 1
    /\ Len(after) = Len(before) + (IF startswith(before[1].source, tag) THEN 0 ELSE 1)

\* C3 as stated: every call of write_header leaves cell 0 equal to
\* NOTEBOOK_HEADER, exactly one tagged cell if at most one cell was tagged
\* before, and the count grown by one exactly when cell 0 was not tagged; a
\* second call changes nothing; likewise add_course_info with COURSE_INFO.
C3_HeaderIdempotentAsStated ==
    [][/\ (log' = Append(log, "write_headers") /\ pc' = "ready")
          => /\ \A f \in Collection :
                   HeaderCallOk(content[f], content'[f], NOTEBOOK_HEADER_TAG, NOTEBOOK_HEADER,
                                TagCount(content[f], NOTEBOOK_HEADER_TAG) <= 1)
             /\ LastOp = "write_headers" => content' = content
       /\ log' = Append(log, "add_course_info")
          => /\ \A f \in matching(listing) :
                   HeaderCallOk(content[f], content'[f], COURSE_COMMENT, COURSE_INFO,
                                TagCount(content[f], COURSE_COMMENT) <= 1)
             /\ LastOp = "add_course_info" => content' = content]_vars

\* C3, amended: as stated, but exactly one cell is tagged afterwards under the
\* assumption that no cell other than the first was tagged before the call.
C3_HeaderIdempotent ==
    [][/\ (log' = Append(log, "write_headers") /\ pc' = "ready")
          => /\ \A f \in Collection :
                   HeaderCallOk(content[f], content'[f], NOTEBOOK_HEADER_TAG, NOTEBOOK_HEADER,
                                TagCount(Tail(content[f]), NOTEBOOK_HEADER_TAG) = 0)
             /\ LastOp = "write_headers" => content' = content
       /\ log' = Append(log, "add_course_info")
          => /\ \A f \in matching(listing) :
                   HeaderCallOk(content[f], content'[f], COURSE_COMMENT, COURSE_INFO,
                                TagCount(Tail(content[f]), COURSE_COMMENT) = 0)
             /\ LastOp = "add_course_info" => content' = content]_vars

\* C3 witness: write_headers has run twice in a row on a notebook that holds
\* the header once, in its first cell.
C3_Witness ==
    /\ Len(log) >= 3
    /\ log[Len(log) - 1] = "write_headers"
    /\ log[Len(log)] = "write_headers"
    /\ \E f \in Collection :
          /\ content[f][1].source = NOTEBOOK_HEADER
          /\ TagCount(content[f], NOTEBOOK_HEADER_TAG) = 1

\* A previous (next) link to file f in a navbar text: the opening of the
\* template, and later the URL of f followed by the template's closing.
HasPrev(text) == \E k \in 1..Len(text) : text[k] = Lit("< [")

HasNext(text) == \E k \in 1..Len(text) : text[k] = Lit(") >")

HasPrevTo(text, f) ==
    \E k \in 1..Len(text), j \in 1..(Len(text) - 2) :
        /\ k < j
        /\ text[k] = Lit("< [")
        /\ SubSeq(text, j, j + 2) = <<Lit("](")>> \o url(f) \o <<Lit(") ")>>

HasNextTo(text, f) ==
    \E k \in 1..Len(text), j \in 1..(Len(text) - 2) :
        /\ k < j
        /\ text[k] = Lit(" [")
        /\ SubSeq(text, j, j + 2) = <<Lit("](")>> \o url(f) \o <<Lit(") >")>>

HasContents(text) == \E k \in 1..Len(text) : text[k] = CONTENTS[1]

\* C4: after write_navbars the notebooks are in ascending order of file name,
\* digit-numbered notebooks before appendices; the navigation text of
\* notebook i, which is the source of its second cell, links back to notebook
\* i-1 and to no other file, and only if i > 1, forward to notebook i+1 and
\* to no other file, and only if i is not the last, and holds the Contents link.
C4_NavbarLinksAdjacent ==
    (LastOp = "write_navbars" /\ pc = "ready")
    => LET k == Len(notebooks)
       IN  /\ Collection = matching(listing)
           /\ \A i, j \in 1..k : i < j =>
                 /\ StrLess(notebooks[i], notebooks[j])
                 /\ ~(isupper(notebooks[i][1]) /\ isdigit(notebooks[j][1]))
           /\ \A i \in 1..k :
                 LET text == navbar[notebooks[i]]
                 IN  /\ content[notebooks[i]][2].source = text
                     /\ HasContents(text)
                     /\ HasPrev(text) <=> i > 1
                     /\ HasNext(text) <=> i < k
                     /\ \A f \in listing :
                           /\ HasPrevTo(text, f) <=> (i > 1 /\ f = notebooks[i - 1])
                           /\ HasNextTo(text, f) <=> (i < k /\ f = notebooks[i + 1])

\* C4 witness: navbars written for three notebooks, the last an appendix.
C4_Witness ==
    /\ LastOp = "write_navbars"
    /\ pc = "ready"
    /\ Len(notebooks) = 3
    /\ isupper(notebooks[3][1])
    /\ HasPrevTo(navbar[notebooks[2]], notebooks[1])
    /\ HasNextTo(navbar[notebooks[2]], notebooks[3])

\* The form NN.NN-Title.ipynb or A.NN-Title.ipynb of a whole name.
IsNotebookName(f) ==
    \E p \in {1, 2} :
        /\ Len(f) >= p + 4 + Len(Ipynb)
        /\ IF p = 2 THEN isdigit(f[1]) /\ isdigit(f[2]) ELSE isupper(f[1])
        /\ f[p + 1] = "."
        /\ isdigit(f[p + 2])
        /\ isdigit(f[p + 3])
        /\ f[p + 4] = "-"
        /\ SubSeq(f, Len(f) - Len(Ipynb) + 1, Len(f)) = Ipynb

\* C5: the files treated as notebooks are exactly the directory entries whose
\* whole name has the form NN.NN-Title.ipynb or A.NN-Title.ipynb; none lacks
\* the ending .ipynb, and toc.ipynb and index.ipynb are never among them.
C5_SelectedAreNotebookNames ==
    pc # "start"
    => /\ Collection = {f \in listing : IsNotebookName(f)}
       /\ \A f \in Collection : SubSeq(f, Len(f) - Len(Ipynb) + 1, Len(f)) = Ipynb
       /\ (<<"t", "o", "c">> \o Ipynb) \notin Collection
       /\ (<<"i", "n", "d", "e", "x">> \o Ipynb) \notin Collection

\* The lines of a text: str.split('\n')
RECURSIVE Lines(_)
Lines(s) ==
    IF s = <<>> THEN << <<>> >>
    ELSE LET r == Lines(Tail(s))
         IN  IF Head(s) = NL THEN << <<>> >> \o r
             ELSE << <<Head(s)>> \o r[1] >> \o Tail(r)

MentionsNotebook(line) == \E k \in 1..Len(line) : line[k].file \in Collection

SectionDigits(f) == IF isupper(f[1]) THEN SubSeq(f, 3, 4) ELSE SubSeq(f, 4, 5)

\* The README line C8 expects for notebook i: a '### ' heading for section 00,
\* a '- ' list item otherwise, followed by the notebook's link.
EntryLine(i) ==
    (IF SectionDigits(notebooks[i]) = <<"0", "0">> THEN <<Lit("### ")>> ELSE <<Lit("- ")>>)
    \o link(notebooks[i], fmt(title(content[notebooks[i]])))

\* C8: the lines of README.md that refer to notebooks are, in order, one line
\* per notebook of the collection in ascending file name order, a '### '
\* heading line for a notebook of section 00 and a '- ' list item otherwise.
C8_ReadmeOneEntryPerNotebook ==
    (LastOp = "write_readme" /\ pc = "ready")
    => /\ \A i, j \in 1..Len(notebooks) : i < j => StrLess(notebooks[i], notebooks[j])
       /\ SelectSeq(Lines(readme), MentionsNotebook) = [i \in 1..Len(notebooks) |-> EntryLine(i)]

\* The decimal digits of a two-digit prefix without its leading zero.
Unpadded(dd) == IF dd[1] = "0" THEN <<Lit(dd[2])>> ELSE <<Lit(dd[1]), Lit(dd[2])>>

\* C9: of isfrontmatter, ischapter, isappendix exactly one holds: front matter
\* for the prefix 00, chapter for two other digits, appendix for an uppercase
\* letter; issection holds exactly when the section digits are not 00; and
\* numbered_title is the bare title for front matter, 'Chapter n. title' or
\* 'n.m title' for chapters, 'Appendix X. title' or 'X.m title' for appendices.
C9_KindsAndNumberedTitles ==
    \A f \in Collection :
        LET t == fmt(title(content[f]))
            letter == isupper(f[1])
            front == SubSeq(f, 1, 2) = <<"0", "0">>
            sec == SectionDigits(f)
        IN  /\ Cardinality({k \in {"front", "chapter", "appendix"} :
                              \/ k = "front" /\ isfrontmatter(f)
                              \/ k = "chapter" /\ ischapter(f)
                              \/ k = "appendix" /\ isappendix(f)}) = 1
            /\ isfrontmatter(f) <=> front
            /\ ischapter(f) <=> (isdigit(f[1]) /\ isdigit(f[2]) /\ ~front)
            /\ isappendix(f) <=> letter
            /\ issection(f) <=> sec # <<"0", "0">>
            /\ numbered_title(f, t) =
                 IF front THEN t
                 ELSE IF letter
                 THEN IF sec = <<"0", "0">>
                      THEN <<Lit("Appendix "), Lit(f[1]), Lit(". ")>> \o t
                      ELSE <<Lit(f[1]), Lit(".")>> \o Unpadded(sec) \o <<Lit(" ")>> \o t
                 ELSE IF sec = <<"0", "0">>
                      THEN <<Lit("Chapter ")>> \o Unpadded(SubSeq(f, 1, 2)) \o <<Lit(". ")>> \o t
                      ELSE Unpadded(SubSeq(f, 1, 2)) \o <<Lit(".")>> \o Unpadded(sec)
                           \o <<Lit(" ")>> \o t

\* C9 witness: a collection with front matter, a chapter section numbered 10.10
\* and an appendix.
C9_Witness ==
    /\ \E f \in Collection : isfrontmatter(f)
    /\ \E f \in Collection : ischapter(f) /\ issection(f) /\ PyInt(chapter(f)) = 10
    /\ \E f \in Collection : isappendix(f)

\* The text of a token sequence: adjacent literal pieces run together.
RECURSIVE Text(_)
Text(s) ==
    IF Len(s) < 2 THEN s
    ELSE IF s[1].file = <<>> /\ s[2].file = <<>>
         THEN Text(<<Lit(s[1].lit \o s[2].lit)>> \o SubSeq(s, 3, Len(s)))
         ELSE <<s[1]>> \o Text(Tail(s))

\* C15: for every notebook of the collection the README line of nb.readme is
\* the same string as the line gen_contents yields for that notebook, the
\* prefix followed by the link '[' numbered title '](' url ')'.
C15_ReadmeLineEqualsGenContents ==
    (LastOp = "write_readme" /\ pc = "ready") =>
        \A i \in 1..Len(notebooks) :
            Text(readme_entries(notebooks, content)[i])
               = Text(gen_contents(notebooks[i], fmt(title(content[notebooks[i]]))))

\* C21: write_navbars on a collection built from a directory that holds no
\* matching notebook completes without raising and writes no file.
C21_EmptyCollectionNavbars ==
    [][(log' = Append(log, "write_navbars") /\ matching(listing) = {})
       => /\ pc' = "ready"
          /\ content' = content
          /\ readme' = readme]_vars

\* ------------------------------------------------------ installation claims

InstallFns ==
    {"install_pyomo", "install_idaes", "install_ipopt", "install_glpk", "install_cbc",
     "install_bonmin", "install_couenne", "install_gecode", "install_scip",
     "install_gurobi", "install_cplex", "install_mosek", "install_xpress"}

\* The executable or module whose presence makes the package of fn available.
Checked(fn) ==
    CASE fn = "install_pyomo" -> "pyomo"
      [] fn = "install_idaes" -> "idaes"
      [] fn = "install_ipopt" -> "ipopt"
      [] fn = "install_glpk" -> "glpsol"
      [] fn = "install_cbc" -> "cbc"
      [] fn = "install_bonmin" -> "bonmin"
      [] fn = "install_couenne" -> "couenne"
      [] fn = "install_gecode" -> "gecode"
      [] fn = "install_scip" -> "scip"
      [] fn = "install_gurobi" -> "gurobipy"
      [] fn = "install_cplex" -> "cplex"
      [] fn = "install_mosek" -> "mosek.fusion"
      [] fn = "install_xpress" -> "xpress"

\* C6: a call of an install_* function that returns gives True exactly when
\* the package is available as it returns, and False when it is not.
C6_ReturnReportsAvailability ==
    (call.fn \in InstallFns /\ call.raised = "")
    => \/ call.ret = "True" /\ Checked(call.fn) \in avail
       \/ call.ret = "False" /\ Checked(call.fn) \notin avail

\* C7: no call of an install_* function ends with an exception escaping.
C7_NoExceptionEscapes == call.fn \in InstallFns => call.raised = ""

InShell(cmd) == \E k \in 1..Len(call.shell) : call.shell[k] = cmd

IpoptInstallCommands ==
    {"wget -N -q \"https://ampl.com/dl/open/ipopt/ipopt-linux64.zip\"",
     "unzip -o -q ipopt-linux64",
     "conda install -c conda-forge ipopt "}

\* C10: the imports cell issues an installation command for ipopt only on
\* Colab; on Colab with ipopt missing (and pyomo in place, so that the cell
\* gets to ipopt) it downloads and unzips the ipopt archive.
C10_IpoptInstalledOnlyOnColab ==
    call.fn = "imports_cell"
    => /\ (\E cmd \in IpoptInstallCommands : InShell(cmd)) => colab
       /\ (colab /\ "ipopt" \notin call.before /\ "pyomo" \in avail)
          => /\ InShell("wget -N -q \"https://ampl.com/dl/open/ipopt/ipopt-linux64.zip\"")
             /\ InShell("unzip -o -q ipopt-linux64")

Failed == {"installation failed", "installation failed."}

PreviouslyInstalled ==
    {p \o " was previously installed" :
        p \in {"pyomo", "idaes", "ipopt", "glpk", "cbc", "bonmin", "couenne", "gecode",
               "scip", "gurobi", "cplex", "mosek", "Xpress"}}

IsOutcome(msg) ==
    msg \in {"installation successful"} \cup Failed \cup PreviouslyInstalled

\* C16: a call of an install_* helper that returns has printed exactly one
\* outcome message, and the message agrees with the package as the call
\* returns: 'previously installed' for a package present before and after,
\* 'installation successful' for one present after, 'installation failed' for
\* one absent after.
C16_OneOutcomeMessage ==
    (call.fn \in InstallFns /\ call.raised = "") =>
        LET outcome == SelectSeq(call.printed, IsOutcome)
        IN  /\ Len(outcome) = 1
            /\ outcome[1] \in PreviouslyInstalled =>
                  Checked(call.fn) \in call.before \cap avail
            /\ outcome[1] = "installation successful" => Checked(call.fn) \in avail
            /\ outcome[1] \in Failed => Checked(call.fn) \notin avail

ExecutableChecked ==
    {"install_pyomo", "install_idaes", "install_ipopt", "install_glpk", "install_cbc",
     "install_bonmin", "install_couenne", "install_gecode", "install_scip"}

\* C17: a helper that checks for an executable, called when the executable is
\* already available, issues no shell command and leaves the environment as
\* it found it.
C17_NoInstallWhenAvailable ==
    (call.fn \in ExecutableChecked /\ Checked(call.fn) \in call.before) =>
        /\ call.shell = <<>>
        /\ avail = call.before
        /\ call.raised = ""

\* A second call that found its executable, in an environment to which the
\* first call had added something.
C17_Witness ==
    /\ call.n = 2
    /\ call.fn \in ExecutableChecked
    /\ Checked(call.fn) \in call.before
    /\ Cardinality(call.before) > MaxInstalled
    /\ call.printed \in [{1} -> PreviouslyInstalled]

\* ------------------------------------------------------- scheduling claims

\* SCHEDULE is the result of schedule(JOBS, order), called directly or by fifo.
ScheduleCalled == sched.fn \in {"schedule", "fifo"}

NonNegativeTimes(JOBS) ==
    \A j \in DOMAIN JOBS : JOBS[j].release >= 0 /\ JOBS[j].duration >= 0

NoRepeat(order) == \A i, j \in 1..Len(order) : order[i] = order[j] => i = j

Overlap(a, b) == a.start < b.finish /\ b.start < a.finish

ScheduleContract(JOBS, order, S) ==
    /\ \A k \in 1..Len(order) :
          LET job == order[k]
              e == S[job]
          IN  /\ e.start >= JOBS[job].release
              /\ e.finish = e.start + JOBS[job].duration
              /\ IF k = 1
                 THEN e.start = JOBS[job].release
                 ELSE /\ e.start >= S[order[k - 1]].finish
                      /\ e.start \in {JOBS[job].release, S[order[k - 1]].finish}
    /\ \A a, b \in DOMAIN S : a # b => ~Overlap(S[a], S[b])
    /\ \A i, j \in 1..Len(order) : i < j => S[order[i]].finish <= S[order[j]].start

\* C11 as stated: for every job table and every order list, schedule gives
\* each listed job a start equal to the larger of its release and the finish
\* of the job before it in the order, finish = start + duration, no two
\* scheduled jobs overlap and the jobs run in the given order.
C11_ScheduleContractAsStated ==
    ScheduleCalled => ScheduleContract(sched.JOBS, sched.order, sched.SCHEDULE)

\* C11, amended: the same, for job tables of non-negative releases and
\* durations and order lists that name no job twice.
C11_ScheduleContract ==
    (ScheduleCalled /\ NonNegativeTimes(sched.JOBS) /\ NoRepeat(sched.order))
        => ScheduleContract(sched.JOBS, sched.order, sched.SCHEDULE)

\* Two jobs were scheduled and the second had to wait for the first.
C11_Witness ==
    /\ sched.fn = "schedule"
    /\ NonNegativeTimes(sched.JOBS)
    /\ NoRepeat(sched.order)
    /\ Len(sched.order) = 2
    /\ sched.SCHEDULE[sched.order[2]].start > sched.JOBS[sched.order[2]].release
    /\ sched.SCHEDULE[sched.order[2]].start = sched.SCHEDULE[sched.order[1]].finish

\* The attribute each dispatch rule looks at.
RuleAttribute == [lifo |-> "release", edd |-> "due", spt |-> "duration"]

Dispatching == sched.fn \in DOMAIN RuleAttribute

\* The candidates of the next iteration, as the loop body computes them.
Candidates ==
    DOMAIN released(sched.JOBS, sched.unfinished_jobs,
                    IF sched.start >= min_release(sched.JOBS, sched.unfinished_jobs)
                    THEN sched.start
                    ELSE min_release(sched.JOBS, sched.unfinished_jobs),
                    RuleAttribute[sched.fn])

\* C20: in lifo, edd and spt, for every non-empty table of non-negative
\* releases and durations, every iteration finds a released unfinished job
\* (no exception), each iteration schedules one job not scheduled before, so
\* the loop ends after one iteration per job; every job starts no earlier
\* than its release and no two jobs overlap, also in the SCHEDULE returned.
C20_DispatchLoopsTerminate ==
    Dispatching =>
        /\ sched.pc # "raised"
        /\ (sched.pc = "loop" /\ sched.unfinished_jobs # {}) => Candidates # {}
        /\ Len(sched.assigned) + Cardinality(sched.unfinished_jobs)
              = Cardinality(DOMAIN sched.JOBS)
        /\ \A i, j \in 1..Len(sched.assigned) :
              /\ sched.assigned[i].job \notin sched.unfinished_jobs
              /\ sched.assigned[i].start >= sched.JOBS[sched.assigned[i].job].release
              /\ i # j => /\ sched.assigned[i].job # sched.assigned[j].job
                          /\ ~Overlap(sched.assigned[i], sched.assigned[j])
        /\ sched.pc = "top" =>
              /\ Len(sched.assigned) = Cardinality(DOMAIN sched.JOBS)
              /\ DOMAIN sched.SCHEDULE = DOMAIN sched.JOBS
              /\ \A i \in 1..Len(sched.assigned) :
                    LET e == sched.SCHEDULE[sched.assigned[i].job]
                    IN  /\ e.start = sched.assigned[i].start
                        /\ e.finish = sched.assigned[i].finish
              /\ \A a, b \in DOMAIN sched.SCHEDULE :
                    a # b => ~Overlap(sched.SCHEDULE[a], sched.SCHEDULE[b])

\* A rule returned after two iterations: the machine idled until the first
\* release, and the second job ran right after the first.
C20_Witness ==
    /\ Dispatching
    /\ sched.pc = "top"
    /\ Len(sched.assigned) = 2
    /\ sched.assigned[1].start > 0
    /\ sched.assigned[1].finish > sched.assigned[1].start
    /\ sched.assigned[2].start = sched.assigned[1].finish

\* ------------------------------------------------- maintenance planning claims

Solved(model) == plan.model = model /\ plan.status = "optimal"

\* The days of the horizon on which a maintenance period starts.
Starts == {t \in 1..plan.T : plan.y[t] = 1}

\* C12: in every assignment that satisfies the constraints of
\* maintenance_planning_bigm, the number of days t in 1..T with y[t] = 1
\* equals P.
C12_StartsEqualP == Solved("bigm") => Cardinality(Starts) = plan.P

\* C13: for binary x and y the Big-M model and the GDP model have the same
\* feasible assignments, and in a solution of either a start y[t] = 1 with
\* t in 1..T-M+1 forces x[t..t+M-1] = 0.
C13_BigMEqualsDisjunction ==
    /\ (plan.model \in {"bigm", "gdp"} /\ plan.status = "built") =>
          maintenance_planning_bigm(plan.T, plan.M, plan.P)
             = maintenance_planning_gdp(plan.T, plan.M, plan.P)
    /\ (Solved("bigm") \/ Solved("gdp")) =>
          \A t \in Y(plan.T, plan.M) :
              plan.y[t] = 1 => \A s \in 0..(plan.M - 1) : plan.x[t + s] = 0

\* A solution of the GDP model with a maintenance start and a day of operation.
C13_Witness ==
    /\ Solved("gdp")
    /\ \E t \in Y(plan.T, plan.M) : plan.y[t] = 1
    /\ \E t \in 1..plan.T : plan.x[t] = 1

\* C14: in every assignment feasible for maintenance_planning_ramp_operational
\* any two distinct start days are at least M + N days apart, so at least N
\* days lie between the last day of one period and the start of the next.
C14_StartsFarApart ==
    Solved("ramp_operational") =>
        \A t1, t2 \in Starts :
            t1 < t2 => /\ t2 - t1 >= plan.M + plan.N
                       /\ Cardinality((t1 + plan.M)..(t2 - 1)) >= plan.N

\* A solution with N > 0 and two starts, the unit running on some day.
C14_Witness ==
    /\ Solved("ramp_operational")
    /\ plan.N > 0
    /\ Cardinality(Starts) = 2
    /\ \E t \in 1..plan.T : plan.x[t] > 0

\* ------------------------------------------------------- get_stock_data claims

Printed(i, msg) ==
    \E j \in 1..Len(stock.entry[i].printed) : stock.entry[i].printed[j] = msg

\* C18: when the function is done, 'fail' was printed for every symbol all of
\* whose attempts raised, and for no symbol whose download succeeded.
C18_FailureReported ==
    stock.pc = "done" =>
        \A i \in 1..Len(stock.symbols) :
            /\ (~stock.entry[i].saved /\ stock.entry[i].raised = Attempts)
                  => Printed(i, "fail")
            /\ stock.entry[i].saved => ~Printed(i, "fail")

\* C19: the service is called at most 5 times for an entry of the list, never
\* after the entry's download was saved, every entry has been attempted when
\* the function is done, and the function gets done.
C19_BoundedAttemptsAndTermination ==
    /\ [](stock.pc # "call" =>
             /\ \A i \in 1..Len(stock.symbols) :
                   /\ stock.entry[i].calls <= 5
                   /\ ~stock.entry[i].late
                   /\ stock.entry[i].saved => Printed(i, " success")
             /\ stock.pc = "done" =>
                   \A i \in 1..Len(stock.symbols) : stock.entry[i].calls >= 1)
    /\ <>(stock.pc = "done")

\* Done with two symbols: the first failed on all its attempts, the second
\* was still tried and saved before its attempts ran out.
C19_Witness ==
    /\ stock.pc = "done"
    /\ Len(stock.symbols) = 2
    /\ stock.entry[1].calls = 5 /\ ~stock.entry[1].saved
    /\ stock.entry[2].saved /\ stock.entry[2].calls \in 2..4

====
